---- MODULE Spec2Model ----
EXTENDS Integers, Naturals, Sequences, FiniteSets, TLC

\* Strings of the program are modelled as sequences of one-character strings,
\* so that trimming, parsing and replacement act on characters.

\* None, for a field value (a record key that is missing or null)
NoneV == <<"<None>">>

\* None, for a time of day (parsed times are minutes in 0..1439)
NoneT == -1

\* A character is a one-character string when it is ASCII or a letter of the
\* item names; whitespace and decimal digits outside ASCII are written as
\* "U+XXXX" atoms (a one-character string never equals such an atom).

\* the characters str.strip() removes (str.isspace())
Whitespace == {"\t", "\n", "", "\f", "\r", "", "", "", "", " ", "U+0085", "U+00A0", "U+1680", "U+2000", "U+2001", "U+2002", "U+2003", "U+2004", "U+2005", "U+2006", "U+2007", "U+2008", "U+2009", "U+200A", "U+2028", "U+2029", "U+202F", "U+205F", "U+3000"}

Space == " "

\* the Unicode decimal digits matched by \d in a str pattern, in blocks of ten
\* ordered by value, as int() reads them
DigitBlocks == <<
    <<"0", "1", "2", "3", "4", "5", "6", "7", "8", "9">>,
    <<"U+0660", "U+0661", "U+0662", "U+0663", "U+0664", "U+0665", "U+0666", "U+0667", "U+0668", "U+0669">>,
    <<"U+06F0", "U+06F1", "U+06F2", "U+06F3", "U+06F4", "U+06F5", "U+06F6", "U+06F7", "U+06F8", "U+06F9">>,
    <<"U+07C0", "U+07C1", "U+07C2", "U+07C3", "U+07C4", "U+07C5", "U+07C6", "U+07C7", "U+07C8", "U+07C9">>,
    <<"U+0966", "U+0967", "U+0968", "U+0969", "U+096A", "U+096B", "U+096C", "U+096D", "U+096E", "U+096F">>,
    <<"U+09E6", "U+09E7", "U+09E8", "U+09E9", "U+09EA", "U+09EB", "U+09EC", "U+09ED", "U+09EE", "U+09EF">>,
    <<"U+0A66", "U+0A67", "U+0A68", "U+0A69", "U+0A6A", "U+0A6B", "U+0A6C", "U+0A6D", "U+0A6E", "U+0A6F">>,
    <<"U+0AE6", "U+0AE7", "U+0AE8", "U+0AE9", "U+0AEA", "U+0AEB", "U+0AEC", "U+0AED", "U+0AEE", "U+0AEF">>,
    <<"U+0B66", "U+0B67", "U+0B68", "U+0B69", "U+0B6A", "U+0B6B", "U+0B6C", "U+0B6D", "U+0B6E", "U+0B6F">>,
    <<"U+0BE6", "U+0BE7", "U+0BE8", "U+0BE9", "U+0BEA", "U+0BEB", "U+0BEC", "U+0BED", "U+0BEE", "U+0BEF">>,
    <<"U+0C66", "U+0C67", "U+0C68", "U+0C69", "U+0C6A", "U+0C6B", "U+0C6C", "U+0C6D", "U+0C6E", "U+0C6F">>,
    <<"U+0CE6", "U+0CE7", "U+0CE8", "U+0CE9", "U+0CEA", "U+0CEB", "U+0CEC", "U+0CED", "U+0CEE", "U+0CEF">>,
    <<"U+0D66", "U+0D67", "U+0D68", "U+0D69", "U+0D6A", "U+0D6B", "U+0D6C", "U+0D6D", "U+0D6E", "U+0D6F">>,
    <<"U+0DE6", "U+0DE7", "U+0DE8", "U+0DE9", "U+0DEA", "U+0DEB", "U+0DEC", "U+0DED", "U+0DEE", "U+0DEF">>,
    <<"U+0E50", "U+0E51", "U+0E52", "U+0E53", "U+0E54", "U+0E55", "U+0E56", "U+0E57", "U+0E58", "U+0E59">>,
    <<"U+0ED0", "U+0ED1", "U+0ED2", "U+0ED3", "U+0ED4", "U+0ED5", "U+0ED6", "U+0ED7", "U+0ED8", "U+0ED9">>,
    <<"U+0F20", "U+0F21", "U+0F22", "U+0F23", "U+0F24", "U+0F25", "U+0F26", "U+0F27", "U+0F28", "U+0F29">>,
    <<"U+1040", "U+1041", "U+1042", "U+1043", "U+1044", "U+1045", "U+1046", "U+1047", "U+1048", "U+1049">>,
    <<"U+1090", "U+1091", "U+1092", "U+1093", "U+1094", "U+1095", "U+1096", "U+1097", "U+1098", "U+1099">>,
    <<"U+17E0", "U+17E1", "U+17E2", "U+17E3", "U+17E4", "U+17E5", "U+17E6", "U+17E7", "U+17E8", "U+17E9">>,
    <<"U+1810", "U+1811", "U+1812", "U+1813", "U+1814", "U+1815", "U+1816", "U+1817", "U+1818", "U+1819">>,
    <<"U+1946", "U+1947", "U+1948", "U+1949", "U+194A", "U+194B", "U+194C", "U+194D", "U+194E", "U+194F">>,
    <<"U+19D0", "U+19D1", "U+19D2", "U+19D3", "U+19D4", "U+19D5", "U+19D6", "U+19D7", "U+19D8", "U+19D9">>,
    <<"U+1A80", "U+1A81", "U+1A82", "U+1A83", "U+1A84", "U+1A85", "U+1A86", "U+1A87", "U+1A88", "U+1A89">>,
    <<"U+1A90", "U+1A91", "U+1A92", "U+1A93", "U+1A94", "U+1A95", "U+1A96", "U+1A97", "U+1A98", "U+1A99">>,
    <<"U+1B50", "U+1B51", "U+1B52", "U+1B53", "U+1B54", "U+1B55", "U+1B56", "U+1B57", "U+1B58", "U+1B59">>,
    <<"U+1BB0", "U+1BB1", "U+1BB2", "U+1BB3", "U+1BB4", "U+1BB5", "U+1BB6", "U+1BB7", "U+1BB8", "U+1BB9">>,
    <<"U+1C40", "U+1C41", "U+1C42", "U+1C43", "U+1C44", "U+1C45", "U+1C46", "U+1C47", "U+1C48", "U+1C49">>,
    <<"U+1C50", "U+1C51", "U+1C52", "U+1C53", "U+1C54", "U+1C55", "U+1C56", "U+1C57", "U+1C58", "U+1C59">>,
    <<"U+A620", "U+A621", "U+A622", "U+A623", "U+A624", "U+A625", "U+A626", "U+A627", "U+A628", "U+A629">>,
    <<"U+A8D0", "U+A8D1", "U+A8D2", "U+A8D3", "U+A8D4", "U+A8D5", "U+A8D6", "U+A8D7", "U+A8D8", "U+A8D9">>,
    <<"U+A900", "U+A901", "U+A902", "U+A903", "U+A904", "U+A905", "U+A906", "U+A907", "U+A908", "U+A909">>,
    <<"U+A9D0", "U+A9D1", "U+A9D2", "U+A9D3", "U+A9D4", "U+A9D5", "U+A9D6", "U+A9D7", "U+A9D8", "U+A9D9">>,
    <<"U+A9F0", "U+A9F1", "U+A9F2", "U+A9F3", "U+A9F4", "U+A9F5", "U+A9F6", "U+A9F7", "U+A9F8", "U+A9F9">>,
    <<"U+AA50", "U+AA51", "U+AA52", "U+AA53", "U+AA54", "U+AA55", "U+AA56", "U+AA57", "U+AA58", "U+AA59">>,
    <<"U+ABF0", "U+ABF1", "U+ABF2", "U+ABF3", "U+ABF4", "U+ABF5", "U+ABF6", "U+ABF7", "U+ABF8", "U+ABF9">>,
    <<"U+FF10", "U+FF11", "U+FF12", "U+FF13", "U+FF14", "U+FF15", "U+FF16", "U+FF17", "U+FF18", "U+FF19">>,
    <<"U+104A0", "U+104A1", "U+104A2", "U+104A3", "U+104A4", "U+104A5", "U+104A6", "U+104A7", "U+104A8", "U+104A9">>,
    <<"U+10D30", "U+10D31", "U+10D32", "U+10D33", "U+10D34", "U+10D35", "U+10D36", "U+10D37", "U+10D38", "U+10D39">>,
    <<"U+11066", "U+11067", "U+11068", "U+11069", "U+1106A", "U+1106B", "U+1106C", "U+1106D", "U+1106E", "U+1106F">>,
    <<"U+110F0", "U+110F1", "U+110F2", "U+110F3", "U+110F4", "U+110F5", "U+110F6", "U+110F7", "U+110F8", "U+110F9">>,
    <<"U+11136", "U+11137", "U+11138", "U+11139", "U+1113A", "U+1113B", "U+1113C", "U+1113D", "U+1113E", "U+1113F">>,
    <<"U+111D0", "U+111D1", "U+111D2", "U+111D3", "U+111D4", "U+111D5", "U+111D6", "U+111D7", "U+111D8", "U+111D9">>,
    <<"U+112F0", "U+112F1", "U+112F2", "U+112F3", "U+112F4", "U+112F5", "U+112F6", "U+112F7", "U+112F8", "U+112F9">>,
    <<"U+11450", "U+11451", "U+11452", "U+11453", "U+11454", "U+11455", "U+11456", "U+11457", "U+11458", "U+11459">>,
    <<"U+114D0", "U+114D1", "U+114D2", "U+114D3", "U+114D4", "U+114D5", "U+114D6", "U+114D7", "U+114D8", "U+114D9">>,
    <<"U+11650", "U+11651", "U+11652", "U+11653", "U+11654", "U+11655", "U+11656", "U+11657", "U+11658", "U+11659">>,
    <<"U+116C0", "U+116C1", "U+116C2", "U+116C3", "U+116C4", "U+116C5", "U+116C6", "U+116C7", "U+116C8", "U+116C9">>,
    <<"U+11730", "U+11731", "U+11732", "U+11733", "U+11734", "U+11735", "U+11736", "U+11737", "U+11738", "U+11739">>,
    <<"U+118E0", "U+118E1", "U+118E2", "U+118E3", "U+118E4", "U+118E5", "U+118E6", "U+118E7", "U+118E8", "U+118E9">>,
    <<"U+11950", "U+11951", "U+11952", "U+11953", "U+11954", "U+11955", "U+11956", "U+11957", "U+11958", "U+11959">>,
    <<"U+11C50", "U+11C51", "U+11C52", "U+11C53", "U+11C54", "U+11C55", "U+11C56", "U+11C57", "U+11C58", "U+11C59">>,
    <<"U+11D50", "U+11D51", "U+11D52", "U+11D53", "U+11D54", "U+11D55", "U+11D56", "U+11D57", "U+11D58", "U+11D59">>,
    <<"U+11DA0", "U+11DA1", "U+11DA2", "U+11DA3", "U+11DA4", "U+11DA5", "U+11DA6", "U+11DA7", "U+11DA8", "U+11DA9">>,
    <<"U+16A60", "U+16A61", "U+16A62", "U+16A63", "U+16A64", "U+16A65", "U+16A66", "U+16A67", "U+16A68", "U+16A69">>,
    <<"U+16AC0", "U+16AC1", "U+16AC2", "U+16AC3", "U+16AC4", "U+16AC5", "U+16AC6", "U+16AC7", "U+16AC8", "U+16AC9">>,
    <<"U+16B50", "U+16B51", "U+16B52", "U+16B53", "U+16B54", "U+16B55", "U+16B56", "U+16B57", "U+16B58", "U+16B59">>,
    <<"U+1D7CE", "U+1D7CF", "U+1D7D0", "U+1D7D1", "U+1D7D2", "U+1D7D3", "U+1D7D4", "U+1D7D5", "U+1D7D6", "U+1D7D7">>,
    <<"U+1D7D8", "U+1D7D9", "U+1D7DA", "U+1D7DB", "U+1D7DC", "U+1D7DD", "U+1D7DE", "U+1D7DF", "U+1D7E0", "U+1D7E1">>,
    <<"U+1D7E2", "U+1D7E3", "U+1D7E4", "U+1D7E5", "U+1D7E6", "U+1D7E7", "U+1D7E8", "U+1D7E9", "U+1D7EA", "U+1D7EB">>,
    <<"U+1D7EC", "U+1D7ED", "U+1D7EE", "U+1D7EF", "U+1D7F0", "U+1D7F1", "U+1D7F2", "U+1D7F3", "U+1D7F4", "U+1D7F5">>,
    <<"U+1D7F6", "U+1D7F7", "U+1D7F8", "U+1D7F9", "U+1D7FA", "U+1D7FB", "U+1D7FC", "U+1D7FD", "U+1D7FE", "U+1D7FF">>,
    <<"U+1E140", "U+1E141", "U+1E142", "U+1E143", "U+1E144", "U+1E145", "U+1E146", "U+1E147", "U+1E148", "U+1E149">>,
    <<"U+1E2F0", "U+1E2F1", "U+1E2F2", "U+1E2F3", "U+1E2F4", "U+1E2F5", "U+1E2F6", "U+1E2F7", "U+1E2F8", "U+1E2F9">>,
    <<"U+1E950", "U+1E951", "U+1E952", "U+1E953", "U+1E954", "U+1E955", "U+1E956", "U+1E957", "U+1E958", "U+1E959">>,
    <<"U+1FBF0", "U+1FBF1", "U+1FBF2", "U+1FBF3", "U+1FBF4", "U+1FBF5", "U+1FBF6", "U+1FBF7", "U+1FBF8", "U+1FBF9">>>>

Digits == {DigitBlocks[b][k] : b \in 1..Len(DigitBlocks), k \in 1..10}

DigitVal == [c \in Digits |-> CHOOSE k \in 0..9 : \E b \in 1..Len(DigitBlocks) : DigitBlocks[b][k + 1] = c]

\* ASCII digit ranges written out in the patterns ([0-5], [1-9], ...)
AsciiNZ == {"1", "2", "3", "4", "5", "6", "7", "8", "9"}

RECURSIVE Num(_)
Num(s) == IF s = <<>> THEN 0 ELSE Num(SubSeq(s, 1, Len(s) - 1)) * 10 + DigitVal[s[Len(s)]]

\* str.strip()
RECURSIVE LStrip(_)
LStrip(s) == IF s # <<>> /\ s[1] \in Whitespace THEN LStrip(Tail(s)) ELSE s

RECURSIVE RStrip(_)
RStrip(s) == IF s # <<>> /\ s[Len(s)] \in Whitespace THEN RStrip(SubSeq(s, 1, Len(s) - 1)) ELSE s

Strip(s) == RStrip(LStrip(s))

\* str(r.get(f) or "").strip()
Field(r, f) == IF r[f] = NoneV THEN <<>> ELSE Strip(r[f])

\* s.replace(",", ".")
ReplaceComma(s) == [i \in 1..Len(s) |-> IF s[i] = "," THEN "." ELSE s[i]]

StrDash == <<"-">>
StrNA == <<"N", "/", "A">>
Strna == <<"n", "/", "a">>

normalize_value_no_replace(v) ==
    IF v = NoneV THEN <<>>
    ELSE LET s == Strip(v) IN
         IF s \in {StrDash, StrNA, Strna} THEN <<>> ELSE s

normalize_value(v) ==
    IF v = NoneV THEN <<>>
    ELSE LET s == Strip(v) IN
         IF s \in {StrDash, StrNA, Strna} THEN <<>>
         ELSE ReplaceComma(s)

\* ---- regular-expression matching used by datetime.strptime ----
\* A pattern is a sequence of groups; a group is a sequence of alternatives
\* tried in order; an alternative is a sequence of character sets.
Fail == <<0>>

MatchAlt(s, pos, alt) ==
    /\ pos + Len(alt) - 1 <= Len(s)
    /\ \A k \in 1..Len(alt) : s[pos + k - 1] \in alt[k]

\* re.match with backtracking: the lengths taken by each group in the first match
RECURSIVE FirstMatch(_, _, _, _)
FirstMatch(s, pos, pat, k) ==
    IF k > Len(pat) THEN <<>>
    ELSE LET tries == [a \in 1..Len(pat[k]) |->
                 IF MatchAlt(s, pos, pat[k][a])
                 THEN LET rest == FirstMatch(s, pos + Len(pat[k][a]), pat, k + 1)
                      IN IF rest = Fail THEN Fail ELSE <<Len(pat[k][a])>> \o rest
                 ELSE Fail]
             ok == {a \in 1..Len(pat[k]) : tries[a] # Fail}
         IN IF ok = {} THEN Fail ELSE tries[CHOOSE a \in ok : \A b \in ok : a <= b]

RECURSIVE SumSeq(_)
SumSeq(s) == IF s = <<>> THEN 0 ELSE Head(s) + SumSeq(Tail(s))

\* the substring captured by group g of a match with group lengths ls
Group(s, ls, g) == LET from == SumSeq(SubSeq(ls, 1, g - 1)) + 1
                   IN SubSeq(s, from, from + ls[g] - 1)

D == Digits

\* %H:%M  ->  (?P<H>2[0-3]|[0-1]\d|\d):(?P<M>[0-5]\d|\d)
HHMMPattern ==
    << << <<{"2"}, {"0", "1", "2", "3"}>>, <<{"0", "1"}, D>>, <<D>> >>,
       << <<{":"}>> >>,
       << <<{"0", "1", "2", "3", "4", "5"}, D>>, <<D>> >> >>

\* parse_hhmm: minutes of the parsed time of day, or NoneT
parse_hhmm(s0) ==
    LET s == Strip(s0)
        m == FirstMatch(s, 1, HHMMPattern, 1)
    IN IF m = Fail \/ SumSeq(m) # Len(s) THEN NoneT
       ELSE Num(Group(s, m, 1)) * 60 + Num(Group(s, m, 3))

\* %Y-%m-%d  ->  (?P<Y>\d\d\d\d)-(?P<m>1[0-2]|0[1-9]|[1-9])-(?P<d>3[01]|[12]\d|0[1-9]|[1-9]| [1-9])
YMDPattern ==
    << << <<D, D, D, D>> >>,
       << <<{"-"}>> >>,
       << <<{"1"}, {"0", "1", "2"}>>, <<{"0"}, AsciiNZ>>, <<AsciiNZ>> >>,
       << <<{"-"}>> >>,
       << <<{"3"}, {"0", "1"}>>, <<{"1", "2"}, D>>, <<{"0"}, AsciiNZ>>,
          <<AsciiNZ>>, <<{Space}, AsciiNZ>> >> >>

IsLeap(y) == (y % 4 = 0 /\ y % 100 # 0) \/ y % 400 = 0

DaysIn(y, m) == IF m = 2 THEN (IF IsLeap(y) THEN 29 ELSE 28)
                ELSE IF m \in {4, 6, 9, 11} THEN 30 ELSE 31

\* datetime.min.date() as a comparable number yyyymmdd
DateMin == 10101

\* datetime.strptime(s, "%Y-%m-%d").date(), falling back to datetime.min.date()
ParseDate(s) ==
    LET m == FirstMatch(s, 1, YMDPattern, 1)
    IN IF m = Fail \/ SumSeq(m) # Len(s) THEN DateMin
       ELSE LET y == Num(Group(s, m, 1))
                mo == Num(Group(s, m, 3))
                dd == Num(Strip(Group(s, m, 5)))
            IN IF y >= 1 /\ dd <= DaysIn(y, mo) THEN y * 10000 + mo * 100 + dd
               ELSE DateMin

\* ---- stable sorting (Python's sorted) of a sequence of [k |-> key, v |-> value] ----
\* tuple comparison, as Python compares sort keys
RECURSIVE TupleLess(_, _)
TupleLess(a, b) ==
    IF a = <<>> THEN b # <<>>
    ELSE IF b = <<>> THEN FALSE
    ELSE IF Head(a) # Head(b) THEN Head(a) < Head(b)
    ELSE TupleLess(Tail(a), Tail(b))

RECURSIVE InsertAscUnstable(_, _)
InsertAscUnstable(p, s) ==
    IF s = <<>> THEN <<p>>
    ELSE IF ~TupleLess(s[Len(s)].k, p.k) THEN Append(InsertAscUnstable(p, SubSeq(s, 1, Len(s) - 1)), s[Len(s)])
    ELSE Append(s, p)

RECURSIVE InsertAsc(_, _)
InsertAsc(p, s) ==
    IF s = <<>> THEN <<p>>
    ELSE IF TupleLess(p.k, s[Len(s)].k) THEN Append(InsertAsc(p, SubSeq(s, 1, Len(s) - 1)), s[Len(s)])
    ELSE Append(s, p)

RECURSIVE StableSort(_)
StableSort(ps) == IF ps = <<>> THEN <<>>
                  ELSE InsertAsc(ps[Len(ps)], StableSort(SubSeq(ps, 1, Len(ps) - 1)))

Values(ps) == [i \in 1..Len(ps) |-> ps[i].v]

\* SHIFT_START
ShiftA == <<"A">>
ShiftB == <<"B">>
ShiftG == <<"Γ">>
SHIFT_START == [x \in {ShiftA, ShiftB, ShiftG} |->
    CASE x = ShiftA -> <<"0", "6", ":", "0", "0">>
      [] x = ShiftB -> <<"1", "4", ":", "0", "0">>
      [] x = ShiftG -> <<"2", "2", ":", "0", "0">>]

Midnight == <<"0", "0", ":", "0", "0">>

OrZero(t) == IF t = NoneT THEN 0 ELSE t

\* the key of sort_donetime_list: (minutes(t) - start_m) % 1440
ShiftKey(tstr, shift_name) ==
    LET start_str == IF shift_name \in DOMAIN SHIFT_START THEN SHIFT_START[shift_name] ELSE Midnight
        start_m == OrZero(parse_hhmm(start_str))
    IN (OrZero(parse_hhmm(tstr)) - start_m) % (24 * 60)

sort_donetime_list_wall_clock(times, shift_name) ==
    Values(StableSort([i \in 1..Len(times) |-> [k |-> <<OrZero(parse_hhmm(times[i]))>>, v |-> times[i]]]))

sort_donetime_list(times, shift_name) ==
    Values(StableSort([i \in 1..Len(times) |-> [k |-> <<ShiftKey(times[i], shift_name)>>, v |-> times[i]]]))

\* ---- build_shift_index ----
\* `if t and (...)`: a parsed time of day is always truthy
TimeTruthyMidnightFalsy(t) == t # NoneT /\ t # 0

TimeTruthy(t) == t # NoneT

RECURSIVE IndexFold(_, _, _)
IndexFold(rows, i, acc) ==
    IF i > Len(rows) THEN acc
    ELSE LET r == rows[i]
             sd == Field(r, "shiftDate")
             sh == Field(r, "shift")
             st == Field(r, "station")
             dt == Field(r, "donetime")
             t == parse_hhmm(dt)
             key == <<sd, sh, st>>
             acc2 ==
               IF ~(sd # <<>> /\ sh # <<>> /\ st # <<>> /\ dt # <<>>) THEN acc
               ELSE IF key \notin DOMAIN acc.last
                    THEN [keys |-> Append(acc.keys, key),
                          last |-> [k \in DOMAIN acc.last \cup {key} |->
                                      IF k = key THEN t ELSE acc.last[k]]]
                    ELSE IF TimeTruthy(t) /\ (acc.last[key] = NoneT \/ t > acc.last[key])
                    THEN [acc EXCEPT !.last[key] = t]
                    ELSE acc
         IN IndexFold(rows, i + 1, acc2)

IndexSortKeyTimeFirst(g) == <<OrZero(g.last_time), ParseDate(g.shiftDate)>>

IndexSortKey(g) == <<ParseDate(g.shiftDate), OrZero(g.last_time)>>

build_shift_index_reversed_ascending(rows) ==
    LET acc == IndexFold(rows, 1, [keys |-> <<>>, last |-> [k \in {} |-> NoneT]])
        groups == [i \in 1..Len(acc.keys) |->
                     [shiftDate |-> acc.keys[i][1], shift |-> acc.keys[i][2],
                      station |-> acc.keys[i][3], last_time |-> acc.last[acc.keys[i]]]]
        asc == Values(StableSort([i \in 1..Len(groups) |-> [k |-> IndexSortKey(groups[i]), v |-> groups[i]]]))
    IN [i \in 1..Len(asc) |-> asc[Len(asc) + 1 - i]]

build_shift_index(rows) ==
    LET acc == IndexFold(rows, 1, [keys |-> <<>>, last |-> [k \in {} |-> NoneT]])
        groups == [i \in 1..Len(acc.keys) |->
                     [shiftDate |-> acc.keys[i][1], shift |-> acc.keys[i][2],
                      station |-> acc.keys[i][3], last_time |-> acc.last[acc.keys[i]]]]
    IN Values(StableSort([i \in 1..Len(groups) |-> [k |-> [n \in 1..2 |-> -IndexSortKey(groups[i])[n]], v |-> groups[i]]]))

\* ---- ORDERED_ITEMS, ALLOWED_ITEMS ----
Item1 == <<"Θ", "ε", "ρ", "μ", "ο", "κ", "ρ", "α", "σ", "ί", "α", " ", "λ", "α", "μ", "ι", "ν", "α", "τ", "ο", "ρ", "ί", "ο", "υ", " ", "(", "°", "C", ")">>
Item2 == <<"Ε", "ί", "δ", "ο", "ς", " ", "μ", "α", "ρ", "γ", "α", "ρ", "ί", "ν", "η", "ς">>
Item3 == <<"Θ", "ε", "ρ", "μ", "ο", "κ", "ρ", "α", "σ", "ί", "α", " ", "μ", "α", "ρ", "γ", "α", "ρ", "ί", "ν", "η", "ς", " ", "(", "°", "C", ")">>
Item4 == <<"Λ", "α", "μ", "ά", "κ", "ι", " ", "μ", "α", "ρ", "γ", "α", "ρ", "ί", "ν", "η", "ς", " ", "(", "m", "m", ")">>
Item5 == <<"Λ", "α", "μ", "ά", "κ", "ι", " ", "r", "e", "c", "u", "p", "e", "r", "o", " ", "(", "m", "m", ")">>
Item6 == <<"Δ", "ι", "ά", "κ", "ε", "ν", "ο", " ", "μ", "α", "χ", "α", "ι", "ρ", "ι", "ώ", "ν", " ", "(", "c", "m", ")">>
Item7 == <<"Π", "ά", "χ", "ο", "ς", " ", "e", "x", "t", "r", "u", "d", "e", "r", " ", "(", "1", "η", ")">>
Item8 == <<"Π", "ά", "χ", "ο", "ς", " ", "e", "x", "t", "r", "u", "d", "e", "r", " ", "(", "2", "η", ")">>
Item9 == <<"Π", "ο", "σ", "ο", "σ", "τ", "ό", " ", "μ", "α", "ρ", "γ", "α", "ρ", "ί", "ν", "η", "ς", " ", "(", "%", ")">>
Item10 == <<"Π", "ο", "σ", "ο", "σ", "τ", "ό", " ", "α", "ν", "α", "κ", "ύ", "κ", "λ", "ω", "σ", "η", "ς", " ", "ζ", "ύ", "μ", "η", "ς", " ", "r", "e", "c", "u", "p", "e", "r", "o", " ", "(", "%", ")">>

ORDERED_ITEMS == <<Item1, Item2, Item3, Item4, Item5, Item6, Item7, Item8, Item9, Item10>>

ALLOWED_ITEMS == {ORDERED_ITEMS[i] : i \in 1..Len(ORDERED_ITEMS)}

\* ---- build_report ----
Triple(r) == [operator |-> Field(r, "operator"), product |-> Field(r, "productproduced"),
              productionOrder |-> Field(r, "productionOrder")]

EmptyHeader == [operator |-> <<>>, product |-> <<>>, productionOrder |-> <<>>]

MatchesUntrimmedStation(r, shiftDate, shiftName, station) ==
    /\ Field(r, "shiftDate") = shiftDate
    /\ Field(r, "shift") = shiftName
    /\ r["station"] = station

MatchesNoStation(r, shiftDate, shiftName, station) ==
    /\ Field(r, "shiftDate") = shiftDate
    /\ Field(r, "shift") = shiftName

Matches(r, shiftDate, shiftName, station) ==
    /\ Field(r, "shiftDate") = shiftDate
    /\ Field(r, "shift") = shiftName
    /\ Field(r, "station") = station

\* the loop over `filtered`: submissions (with key insertion order) and meta
RECURSIVE ReportFold(_, _, _)
ReportFold(fl, i, acc) ==
    IF i > Len(fl) THEN acc
    ELSE LET r == fl[i]
             donetime == Field(r, "donetime")
             itemname == Field(r, "itemname")
             val == normalize_value(r["itemresult"])
             acc2 ==
               IF donetime = <<>> \/ itemname \notin ALLOWED_ITEMS THEN acc
               ELSE IF donetime \notin DOMAIN acc.subs
                    THEN [keys |-> Append(acc.keys, donetime),
                          subs |-> [k \in DOMAIN acc.subs \cup {donetime} |->
                                      IF k = donetime THEN [n \in {itemname} |-> val] ELSE acc.subs[k]],
                          meta |-> [k \in DOMAIN acc.meta \cup {donetime} |->
                                      IF k = donetime THEN Triple(r) ELSE acc.meta[k]]]
                    ELSE [acc EXCEPT !.subs[donetime] =
                            [n \in DOMAIN @ \cup {itemname} |-> IF n = itemname THEN val ELSE @[n]]]
         IN ReportFold(fl, i + 1, acc2)

build_report_missing_default(rows, shiftDate, shiftName, station) ==
    LET filtered == SelectSeq(rows, LAMBDA r : Matches(r, shiftDate, shiftName, station))
        acc == ReportFold(filtered, 1,
                 [keys |-> <<>>, subs |-> [k \in {} |-> NoneV], meta |-> [k \in {} |-> NoneV]])
        columns == sort_donetime_list(acc.keys, shiftName)
        matrix == [i \in 1..Len(ORDERED_ITEMS) |->
                     [label |-> ORDERED_ITEMS[i],
                      values |-> [j \in 1..Len(columns) |->
                                   IF ORDERED_ITEMS[i] \in DOMAIN acc.subs[columns[j]]
                                   THEN acc.subs[columns[j]][ORDERED_ITEMS[i]] ELSE NoneV]]]
        header == IF columns # <<>> THEN acc.meta[columns[Len(columns)]] ELSE EmptyHeader
    IN [columns |-> columns, matrix |-> matrix, header |-> header,
        shiftDate |-> shiftDate, shift |-> shiftName, station |-> station]

build_report_first_column_header(rows, shiftDate, shiftName, station) ==
    LET filtered == SelectSeq(rows, LAMBDA r : Matches(r, shiftDate, shiftName, station))
        acc == ReportFold(filtered, 1,
                 [keys |-> <<>>, subs |-> [k \in {} |-> NoneV], meta |-> [k \in {} |-> NoneV]])
        columns == sort_donetime_list(acc.keys, shiftName)
        matrix == [i \in 1..Len(ORDERED_ITEMS) |->
                     [label |-> ORDERED_ITEMS[i],
                      values |-> [j \in 1..Len(columns) |->
                                   IF ORDERED_ITEMS[i] \in DOMAIN acc.subs[columns[j]]
                                   THEN acc.subs[columns[j]][ORDERED_ITEMS[i]] ELSE <<>>]]]
        header == IF columns # <<>> THEN acc.meta[columns[1]] ELSE EmptyHeader
    IN [columns |-> columns, matrix |-> matrix, header |-> header,
        shiftDate |-> shiftDate, shift |-> shiftName, station |-> station]

build_report(rows, shiftDate, shiftName, station) ==
    LET filtered == SelectSeq(rows, LAMBDA r : Matches(r, shiftDate, shiftName, station))
        acc == ReportFold(filtered, 1,
                 [keys |-> <<>>, subs |-> [k \in {} |-> NoneV], meta |-> [k \in {} |-> NoneV]])
        columns == sort_donetime_list(acc.keys, shiftName)
        matrix == [i \in 1..Len(ORDERED_ITEMS) |->
                     [label |-> ORDERED_ITEMS[i],
                      values |-> [j \in 1..Len(columns) |->
                                   IF ORDERED_ITEMS[i] \in DOMAIN acc.subs[columns[j]]
                                   THEN acc.subs[columns[j]][ORDERED_ITEMS[i]] ELSE <<>>]]]
        header == IF columns # <<>> THEN acc.meta[columns[Len(columns)]] ELSE EmptyHeader
    IN [columns |-> columns, matrix |-> matrix, header |-> header,
        shiftDate |-> shiftDate, shift |-> shiftName, station |-> station]

\* ======================================================================
\* Input domains and the state machines applying the functions
\* ======================================================================

\* record batches are sequences of at most these many records
MaxRows == 3
MaxIndexRows == 3
\* strings given to normalize_value have at most this many characters
MaxLen == 3

SeqsUpTo(S, n) == UNION {[1..k -> S] : k \in 0..n}

Rec(sd, sh, st, dt, it, res, op, pr, po) ==
    [shiftDate |-> sd, shift |-> sh, station |-> st, donetime |-> dt, itemname |-> it,
     itemresult |-> res, operator |-> op, productproduced |-> pr, productionOrder |-> po]

D1 == <<"2", "0", "2", "4", "-", "0", "1", "-", "0", "1">>
D2 == <<"2", "0", "2", "4", "-", "0", "1", "-", "0", "2">>
S1 == <<"S", "1">>
S2 == <<"S", "2">>
Junk == <<"j", "u", "n", "k">>

RR1 == Rec(D1, ShiftA, S1, <<"0", "6", ":", "0", "5">>, Item1, <<"7", "2", ",", "5">>, <<"J", "o", "h", "n">>, <<"X">>, <<"P", "O", "1">>)
RR2 == Rec(D1, ShiftA, S1, <<"0", "7", ":", "1", "0">>, Item1, StrDash, NoneV, NoneV, NoneV)
RR3 == Rec(D1, ShiftA, S1, <<"0", "7", ":", "1", "0">>, Item2, <<"3", ",", "5">>, <<"M">>, <<"X">>, NoneV)
RR4 == Rec(D1, ShiftA, S1, <<"0", "6", ":", "0", "5">>, Junk, <<"1">>, <<"M">>, NoneV, NoneV)
RR5 == Rec(D1, ShiftA, S2, <<"0", "6", ":", "0", "5">>, Item1, <<"9">>, NoneV, NoneV, NoneV)
RR6 == Rec(D1, ShiftA, S1, <<>>, Item1, <<"1">>, NoneV, NoneV, NoneV)
RR7 == Rec(D1, ShiftA, <<" ", "S", "1", "\t">>, <<"0", "6", ":", "0", "5">>, Item1, Strna, <<"K">>, NoneV, NoneV)
RR8 == Rec(D1, ShiftG, S1, <<"2", "3", ":", "0", "0">>, Item1, <<"1">>, NoneV, NoneV, NoneV)
RR9 == Rec(D1, ShiftG, S1, <<"0", "1", ":", "0", "0">>, Item2, <<"2">>, NoneV, NoneV, NoneV)
RR10 == Rec(D1, ShiftG, S1, <<"U+0666", ":", "0", "0">>, Item1, NoneV, <<"M">>, NoneV, NoneV)
RR11 == Rec(D1, ShiftG, S1, <<"0", "6", ":", "0", "0">>, Item2, <<"9">>, <<"K">>, NoneV, NoneV)
RR12 == Rec(D1, ShiftG, S1, <<"a", "b">>, Item1, <<"2">>, NoneV, NoneV, NoneV)
RR13 == Rec(D1, ShiftG, S1, <<"2", "2", ":", "0", "0">>, Item2, <<"1">>, <<"J", "o", "h", "n">>, NoneV, NoneV)
RR14 == Rec(D1, ShiftG, S1, <<"0", "6", ":", "0", "0">>, Junk, <<"1">>, NoneV, NoneV, NoneV)

ReportRecs == {RR1, RR2, RR3, RR4, RR5, RR6, RR7, RR8, RR9, RR10, RR11, RR12, RR13, RR14}

\* (shiftDate, shiftName, station) selectors as passed by render_print
Selectors == {<<D1, ShiftA, S1>>, <<D1, ShiftG, S1>>, <<D1, ShiftB, S1>>}

L1 == <<"L", "1">>

IR1 == Rec(D1, ShiftA, L1, <<"0", "8", ":", "0", "0">>, NoneV, NoneV, NoneV, NoneV, NoneV)
IR2 == Rec(D1, ShiftA, L1, <<"0", "9", ":", "3", "0">>, NoneV, NoneV, NoneV, NoneV, NoneV)
IR3 == Rec(D1, ShiftA, NoneV, <<"1", "0", ":", "0", "0">>, NoneV, NoneV, NoneV, NoneV, NoneV)
IR4 == Rec(D2, ShiftA, L1, <<"0", "7", ":", "0", "0">>, NoneV, NoneV, NoneV, NoneV, NoneV)
IR5 == Rec(D1, ShiftB, L1, <<"a", "b">>, NoneV, NoneV, NoneV, NoneV, NoneV)
IR6 == Rec(D1, ShiftB, L1, <<"1", "1", ":", "0", "0">>, NoneV, NoneV, NoneV, NoneV, NoneV)
IR7 == Rec(<<" ", "2", "0", "2", "4", "-", "0", "1", "-", "0", "1", "U+00A0">>, ShiftA, <<"\t", "L", "1">>, <<"1", "2", ":", "0", "0">>, NoneV, NoneV, NoneV, NoneV, NoneV)
IR8 == Rec(<<"b", "a", "d">>, ShiftA, L1, <<"0", "5", ":", "0", "0">>, NoneV, NoneV, NoneV, NoneV, NoneV)
IR9 == Rec(D2, ShiftA, L1, NoneV, NoneV, NoneV, NoneV, NoneV, NoneV)
IR10 == Rec(D2, ShiftB, L1, <<"0", "0", ":", "0", "0">>, NoneV, NoneV, NoneV, NoneV, NoneV)
IR11 == Rec(<<"U+0662", "U+0660", "U+0662", "U+0664", "-", "1", "-", "2">>, ShiftB, L1, <<"1", "3", ":", "0", "0">>, NoneV, NoneV, NoneV, NoneV, NoneV)
IR12 == Rec(<<"2", "0", "2", "4", "-", "0", "2", "-", "3", "0">>, ShiftA, L1, <<"0", "1", ":", "0", "0">>, NoneV, NoneV, NoneV, NoneV, NoneV)
IR13 == Rec(<<"0", "0", "0", "1", "-", "0", "1", "-", "0", "1">>, ShiftA, L1, <<"a", "b">>, NoneV, NoneV, NoneV, NoneV, NoneV)
IR14 == Rec(D2, ShiftB, L1, <<"a", "b">>, NoneV, NoneV, NoneV, NoneV, NoneV)
IR15 == Rec(D1, ShiftB, L1, <<"0", "9", ":", "3", "0">>, NoneV, NoneV, NoneV, NoneV, NoneV)

IndexRecs == {IR1, IR2, IR3, IR4, IR5, IR6, IR7, IR8, IR9, IR10, IR11, IR12, IR13, IR14, IR15}

NormChars == {" ", "\t", "-", "N", "n", "/", "A", "a", ",", "3"}

NormInputs == SeqsUpTo(NormChars, MaxLen) \cup {NoneV}

VARIABLES rows, sel, report, shifts, nv, nout

vars == <<rows, sel, report, shifts, nv, nout>>

\* build_report(rows, shiftDate, shiftName, station)
BuildReport ==
    /\ report = <<>>
    /\ report' = <<build_report(rows, sel[1], sel[2], sel[3])>>
    /\ UNCHANGED <<rows, sel, shifts, nv, nout>>

\* build_shift_index(rows)
BuildShiftIndex ==
    /\ shifts = <<>>
    /\ shifts' = <<build_shift_index(rows)>>
    /\ UNCHANGED <<rows, sel, report, nv, nout>>

\* normalize_value(v)
Normalize ==
    /\ nout = <<>>
    /\ nout' = <<normalize_value(nv)>>
    /\ UNCHANGED <<rows, sel, report, shifts, nv>>

InitReport ==
    /\ rows \in SeqsUpTo(ReportRecs, MaxRows)
    /\ sel \in Selectors
    /\ report = <<>> /\ shifts = <<>> /\ nv = NoneV /\ nout = <<>>

InitIndex ==
    /\ rows \in SeqsUpTo(IndexRecs, MaxIndexRows)
    /\ sel = <<>> /\ report = <<>> /\ shifts = <<>> /\ nv = NoneV /\ nout = <<>>

InitNormalize ==
    /\ nv \in NormInputs
    /\ rows = <<>> /\ sel = <<>> /\ report = <<>> /\ shifts = <<>> /\ nout = <<>>

NextReport == BuildReport
NextIndex == BuildShiftIndex
NextNormalize == Normalize

SpecReport == InitReport /\ [][NextReport]_vars
SpecIndex == InitIndex /\ [][NextIndex]_vars
SpecNormalize == InitNormalize /\ [][NextNormalize]_vars

\* ======================================================================
\* Properties
\* ======================================================================

\* records of `rows` that reach the loop body of build_report for selector sel
Survives(r) ==
    /\ Field(r, "shiftDate") = sel[1]
    /\ Field(r, "shift") = sel[2]
    /\ Field(r, "station") = sel[3]
    /\ Field(r, "donetime") # <<>>
    /\ Field(r, "itemname") \in ALLOWED_ITEMS

SurvIdx == {i \in 1..Len(rows) : Survives(rows[i])}

HasValue(item, dt) == \E i \in SurvIdx : Field(rows[i], "itemname") = item /\ Field(rows[i], "donetime") = dt

Rep == report[1]

Cols == Rep.columns

\* C1: one matrix row per ORDERED_ITEMS entry, in order, each with len(columns)
\* values, "" where the item has no value at that column's donetime.
C1_MatrixShape ==
    report # <<>> =>
        /\ Len(Rep.matrix) = Len(ORDERED_ITEMS)
        /\ \A i \in 1..Len(ORDERED_ITEMS) :
              /\ Rep.matrix[i].label = ORDERED_ITEMS[i]
              /\ Len(Rep.matrix[i].values) = Len(Cols)
              /\ \A j \in 1..Len(Cols) :
                    ~HasValue(ORDERED_ITEMS[i], Cols[j]) => Rep.matrix[i].values[j] = <<>>

C1_Witness ==
    /\ report # <<>> /\ Len(Cols) >= 2
    /\ \E i \in 1..Len(ORDERED_ITEMS), j \in 1..Len(Cols) : ~HasValue(ORDERED_ITEMS[i], Cols[j])
    /\ \E i \in 1..Len(ORDERED_ITEMS), j \in 1..Len(Cols) : HasValue(ORDERED_ITEMS[i], Cols[j])

\* C6: columns are exactly the distinct trimmed donetimes of surviving records;
\* cell (item, donetime) is normalize_value(itemresult) of the last such record.
LastFor(item, dt) ==
    CHOOSE i \in SurvIdx : /\ Field(rows[i], "itemname") = item /\ Field(rows[i], "donetime") = dt
                           /\ \A k \in SurvIdx : (Field(rows[k], "itemname") = item
                                 /\ Field(rows[k], "donetime") = dt) => k <= i

C6_ColumnsAndCells ==
    report # <<>> =>
        /\ {Cols[j] : j \in 1..Len(Cols)} = {Field(rows[i], "donetime") : i \in SurvIdx}
        /\ \A j, k \in 1..Len(Cols) : j # k => Cols[j] # Cols[k]
        /\ \A i \in 1..Len(ORDERED_ITEMS), j \in 1..Len(Cols) :
              HasValue(ORDERED_ITEMS[i], Cols[j]) =>
                 Rep.matrix[i].values[j] = normalize_value(rows[LastFor(ORDERED_ITEMS[i], Cols[j])]["itemresult"])

C6_Witness ==
    /\ report # <<>>
    /\ \E i, k \in SurvIdx : i < k /\ Field(rows[i], "itemname") = Field(rows[k], "itemname")
          /\ Field(rows[i], "donetime") = Field(rows[k], "donetime")
          /\ normalize_value(rows[i]["itemresult"]) # normalize_value(rows[k]["itemresult"])
    /\ \E i \in 1..Len(rows) : Field(rows[i], "itemname") = Junk /\ rows[i] \in {RR4}

\* C8: with no surviving record, columns and every row's values are empty and the
\* header is the all-empty triple.
C8_NoData ==
    (report # <<>> /\ SurvIdx = {}) =>
        /\ Cols = <<>>
        /\ \A i \in 1..Len(Rep.matrix) : Rep.matrix[i].values = <<>>
        /\ Rep.header = EmptyHeader

C8_Witness ==
    /\ report # <<>> /\ SurvIdx = {}
    /\ \E i \in 1..Len(rows) : Field(rows[i], "donetime") # <<>> /\ Field(rows[i], "itemname") \in ALLOWED_ITEMS

\* C4: columns are sorted ascending by the shift-relative key, which lies in [0, 1440);
\* for shift Γ (start 22:00) 23:00 has key 60, 01:00 has key 180 and
\* ["06:00","23:00","01:00"] sorts to ["23:00","01:00","06:00"].
C4_Examples ==
    /\ ShiftKey(<<"2", "3", ":", "0", "0">>, ShiftG) = 60
    /\ ShiftKey(<<"0", "1", ":", "0", "0">>, ShiftG) = 180
    /\ sort_donetime_list(<<<<"0", "6", ":", "0", "0">>, <<"2", "3", ":", "0", "0">>, <<"0", "1", ":", "0", "0">>>>, ShiftG) = <<<<"2", "3", ":", "0", "0">>, <<"0", "1", ":", "0", "0">>, <<"0", "6", ":", "0", "0">>>>

C4_ShiftRelativeOrder ==
    /\ C4_Examples
    /\ report # <<>> =>
         \A j \in 1..Len(Cols) :
            /\ ShiftKey(Cols[j], Rep.shift) \in 0..1439
            /\ j < Len(Cols) => ShiftKey(Cols[j], Rep.shift) <= ShiftKey(Cols[j + 1], Rep.shift)

C4_Witness ==
    /\ report # <<>> /\ Rep.shift = ShiftG /\ Len(Cols) >= 2
    /\ \E j, k \in 1..Len(Cols) : j < k /\ parse_hhmm(Cols[j]) > parse_hhmm(Cols[k])

\* C5: the header is the triple of the first surviving record at the last column's
\* donetime (first seen wins), all-empty without columns; the spec's end-to-end
\* scenario gives columns ["06:05","07:10"], values ["72.5",""] and an empty header.
FirstAt(dt) == CHOOSE i \in SurvIdx : Field(rows[i], "donetime") = dt
                  /\ \A k \in SurvIdx : Field(rows[k], "donetime") = dt => i <= k

E2E_Scenario ==
    (rows = <<RR1, RR2>> /\ sel = <<D1, ShiftA, S1>> /\ report # <<>>) =>
    /\ Rep.columns = <<<<"0", "6", ":", "0", "5">>, <<"0", "7", ":", "1", "0">>>>
    /\ Rep.matrix[1].values = <<<<"7", "2", ".", "5">>, <<>>>>
    /\ Rep.header = EmptyHeader

C5_Header ==
    /\ E2E_Scenario
    /\ report # <<>> =>
         Rep.header = IF Cols = <<>> THEN EmptyHeader
                      ELSE [operator |-> Field(rows[FirstAt(Cols[Len(Cols)])], "operator"),
                            product |-> Field(rows[FirstAt(Cols[Len(Cols)])], "productproduced"),
                            productionOrder |-> Field(rows[FirstAt(Cols[Len(Cols)])], "productionOrder")]

C5_Witness ==
    /\ report # <<>> /\ Cols # <<>>
    /\ \E i, k \in SurvIdx : i < k
          /\ Field(rows[i], "donetime") = Cols[Len(Cols)] /\ Field(rows[k], "donetime") = Cols[Len(Cols)]
          /\ Triple(rows[i]) # Triple(rows[k])

\* C10: columns with equal shift-relative keys keep the order in which their
\* donetimes first appear among the surviving records.
FirstPos(dt) == CHOOSE i \in SurvIdx : Field(rows[i], "donetime") = dt
                  /\ \A k \in SurvIdx : Field(rows[k], "donetime") = dt => i <= k

C10_TieOrder ==
    report # <<>> =>
        \A j, k \in 1..Len(Cols) :
            (j < k /\ ShiftKey(Cols[j], Rep.shift) = ShiftKey(Cols[k], Rep.shift))
               => FirstPos(Cols[j]) < FirstPos(Cols[k])

C10_Witness ==
    /\ report # <<>>
    /\ \E j, k \in 1..Len(Cols) : j < k /\ ShiftKey(Cols[j], Rep.shift) = ShiftKey(Cols[k], Rep.shift)
          /\ Cols[j] # Cols[k] /\ Cols[k] = Cols[Len(Cols)]

\* ---- build_shift_index ----
Sh == shifts[1]

ValidIdx == {i \in 1..Len(rows) : \A f \in {"shiftDate", "shift", "station", "donetime"} : Field(rows[i], f) # <<>>}

KeyOf(i) == <<Field(rows[i], "shiftDate"), Field(rows[i], "shift"), Field(rows[i], "station")>>

GKey(g) == <<g.shiftDate, g.shift, g.station>>

ParsedTimesOf(key) == {parse_hhmm(Field(rows[i], "donetime")) : i \in {i \in ValidIdx : KeyOf(i) = key}} \ {NoneT}

\* C2: one group per distinct trimmed key of the records with all four fields
\* non-empty; last_time is the maximum parsable donetime of the key, or None.
C2_Groups ==
    shifts # <<>> =>
        /\ Len(Sh) = Cardinality({KeyOf(i) : i \in ValidIdx})
        /\ {GKey(Sh[j]) : j \in 1..Len(Sh)} = {KeyOf(i) : i \in ValidIdx}
        /\ \A j \in 1..Len(Sh) :
              Sh[j].last_time = IF ParsedTimesOf(GKey(Sh[j])) = {} THEN NoneT
                                ELSE CHOOSE t \in ParsedTimesOf(GKey(Sh[j])) :
                                       \A u \in ParsedTimesOf(GKey(Sh[j])) : u <= t

C2_Witness ==
    /\ shifts # <<>>
    /\ ValidIdx # 1..Len(rows)
    /\ \E j \in 1..Len(Sh) : Cardinality(ParsedTimesOf(GKey(Sh[j]))) >= 2

\* C3: groups are sorted descending by (date, last_time), unparsable dates and
\* None times counting as the earliest; equal keys keep first-appearance order.
FirstIdx(key) == CHOOSE i \in ValidIdx : KeyOf(i) = key /\ \A k \in ValidIdx : KeyOf(k) = key => i <= k

GDate(g) == ParseDate(g.shiftDate)
GTime(g) == IF g.last_time = NoneT THEN 0 ELSE g.last_time

C3_Order ==
    shifts # <<>> =>
        \A j, k \in 1..Len(Sh) : j < k =>
            \/ GDate(Sh[j]) > GDate(Sh[k])
            \/ GDate(Sh[j]) = GDate(Sh[k]) /\ GTime(Sh[j]) > GTime(Sh[k])
            \/ GDate(Sh[j]) = GDate(Sh[k]) /\ GTime(Sh[j]) = GTime(Sh[k])
               /\ FirstIdx(GKey(Sh[j])) < FirstIdx(GKey(Sh[k]))

C3_Witness ==
    /\ shifts # <<>> /\ Len(Sh) >= 3
    /\ \E j, k \in 1..Len(Sh) : j < k /\ GDate(Sh[j]) > GDate(Sh[k]) /\ GTime(Sh[j]) < GTime(Sh[k])
    /\ \E j, k \in 1..Len(Sh) : j < k /\ GDate(Sh[j]) = GDate(Sh[k]) /\ GTime(Sh[j]) = GTime(Sh[k])

\* ---- normalize_value ----
Out == nout[1]

IsNAAnyCase(s) == Len(s) = 3 /\ s[1] \in {"N", "n"} /\ s[2] = "/" /\ s[3] \in {"A", "a"}

\* C7 (as stated): "", "-" and every casing of "N/A" (after trimming) give "";
\* anything else gives the trimmed string with commas replaced by periods.
C7_Original ==
    nout # <<>> =>
        IF nv = NoneV THEN Out = <<>>
        ELSE IF Strip(nv) = <<>> \/ Strip(nv) = StrDash \/ IsNAAnyCase(Strip(nv)) THEN Out = <<>>
        ELSE Out = ReplaceComma(Strip(nv))

\* C7 (amended): None, and the trimmed forms "", "-", "N/A" and "n/a" exactly,
\* give ""; anything else (including "n/A" and "N/a") gives the trimmed string
\* with commas replaced by periods; the result never contains a comma.
C7_Amended ==
    nout # <<>> =>
        /\ \A i \in 1..Len(Out) : Out[i] # ","
        /\ IF nv = NoneV THEN Out = <<>>
           ELSE IF Strip(nv) \in {<<>>, <<"-">>, <<"N", "/", "A">>, <<"n", "/", "a">>} THEN Out = <<>>
           ELSE /\ Len(Out) = Len(Strip(nv))
                /\ \A i \in 1..Len(Out) : Out[i] = IF Strip(nv)[i] = "," THEN "." ELSE Strip(nv)[i]

C7_Witness ==
    /\ nout # <<>> /\ nv # NoneV
    /\ \E i \in 1..Len(nv) : nv[i] = ","
    /\ Out # <<>>

====
